---- MODULE Spec2Model ----
(***************************************************************************)
(* ParagonCrisis: the room real-time coordination core.                    *)
(*                                                                         *)
(*   src/src/server/realtime/socket-server.ts   the Realtime Gateway and   *)
(*                                              the Room Registry          *)
(*   src/unnamed/part_012                       the crisis scheduler       *)
(*   src/unnamed/part_003                       closeRoomAction            *)
(*   src/unnamed/part_000                       the relational schema      *)
(*                                                                         *)
(* Every async handler is a task of the set `tasks`.  A task's step is one *)
(* awaited persistence call together with the synchronous code that        *)
(* follows it up to the next await: Node runs that code without            *)
(* preemption, and the steps of different tasks interleave freely.         *)
(***************************************************************************)
EXTENDS Integers, Sequences, FiniteSets, TLC

\* ------------------------------------------------------------- bounds
\* Client commands and timer firings in one run.
MaxCommands == 3
\* The same, in the runs whose handlers do not overlap.
MaxSeqCommands == 4
\* Handlers (gateway commands, scheduler consumptions, close actions) that
\* may be suspended at a persistence call at the same time.
MaxTasks == 2
\* Rows the Participant, Message and CrisisEvent tables may hold.
MaxParticipants == 2
MaxMessages == 1
MaxEvents == 1
\* Client commands and timer firings in a run that starts on a database an
\* earlier run of the server has filled.
MaxRestartCommands == 2
\* The last instant of the wall clock.
MaxNow == 2
\* Client commands and timer firings of a run in which rooms get deleted.
MaxDeleteCommands == 3
\* Client commands and closures of a run whose timers fire without end.
MaxLiveCommands == 2
\* Client commands and timer firings of a run that creates the gateway anew.
MaxCreateCommands == 2

Conns == {"c1", "c2"}
Codes == {"R1", "R2"}
RawCodes == {"r1", "R1", "R2"}
Names == {"Ana", "Bob"}
RawSeverities == {"high", "CRITICAL", "urgent"}
Contents == {"bonjour", " bonjour ", "   "}

\* An unset optional field (undefined, null).
None == "none"
\* A null DateTime column, and the id no row has.
Null == 0

VARIABLES
    io,               \* socket-server.ts `io`: the gateway exists
    listeners,        \* listeners registered on schedulerEvents "event"
    conn,             \* per connection: its state and socket.data
    sioRooms,         \* socket.io adapter: room code -> sockets joined
    roomConnections,  \* socket-server.ts `roomConnections` (Room Registry)
    activeSchedulers, \* part_012 `activeSchedulers`: codes holding a handle
    pendingTimers,    \* timers armed with setTimeout and not yet fired/cleared
    rooms,            \* table Room, in creation order (id = position)
    participants,     \* table Participant, in joinedAt order (id = position)
    messages,         \* table Message
    events,           \* table CrisisEvent
    now,              \* the wall clock read by new Date()
    tasks,            \* handlers in flight
    emitted,          \* emit calls made by the last step
    thrown,           \* failures that escaped a handler in the last step
    budget,           \* client commands and timer firings still to come
    last              \* the command or resumption the last step was

vars == <<io, listeners, conn, sioRooms, roomConnections, activeSchedulers,
          pendingTimers, rooms, participants, messages, events, now, tasks,
          emitted, thrown, budget, last>>

\* ------------------------------------------------- pure helper functions
\* String.prototype.toUpperCase on the inputs the model draws.
toUpperCase(s) ==
    CASE s = "r1" -> "R1"
      [] s = "high" -> "HIGH"
      [] s = "urgent" -> "URGENT"
      [] OTHER -> s

\* Mutant of trim: the content is used as sent.
trimNothing(s) == s

\* String.prototype.trim on the chat contents the model draws.
trim(s) ==
    CASE s = " bonjour " -> "bonjour"
      [] s = "   " -> ""
      [] OTHER -> s

\* The keys of the generated enum CrisisSeverity.
CrisisSeverity == {"LOW", "MODERATE", "HIGH", "CRITICAL"}

\* Mutant of hasSeverity: the severity is not validated.
hasSeverityAny(key) == TRUE

\* Object.prototype.hasOwnProperty.call(CrisisSeverity, key)
hasSeverity(key) == key \in CrisisSeverity

\* ------------------------------------------------------- persistence
\* prisma.room.findUnique({ where: { code } }): the id of the row, or Null.
RoomIdsByCode(code) == {i \in 1..Len(rooms) : rooms[i].code = code}

findUniqueRoom(code) ==
    IF RoomIdsByCode(code) = {} THEN Null
    ELSE CHOOSE i \in RoomIdsByCode(code) : \A j \in RoomIdsByCode(code) : i <= j

\* A row deleted from the database keeps its place, so that ids stay unique:
\* a deleted Room has no code, a deleted row of another table no room.
RoomExists(roomId) ==
    roomId \in 1..Len(rooms) /\ rooms[roomId].code # None

\* Room_code_key: the unique index room.create checks.
RoomCodeTaken(code) == RoomIdsByCode(code) # {}

\* prisma.participant.findFirst({ where: { roomId, displayName } }) matches.
ParticipantIds(roomId, displayName) ==
    {i \in 1..Len(participants) :
        /\ participants[i].roomId = roomId
        /\ participants[i].displayName = displayName}

\* prisma.participant.findMany({ where: { roomId }, orderBy joinedAt }).
RECURSIVE RoomParticipants(_, _)
RoomParticipants(roomId, n) ==
    IF n = 0 THEN <<>>
    ELSE IF participants[n].roomId = roomId
         THEN Append(RoomParticipants(roomId, n - 1), n)
         ELSE RoomParticipants(roomId, n - 1)

findManyParticipants(roomId) == RoomParticipants(roomId, Len(participants))

\* -------------------------------------------------------- emit calls
\* The system:error messages of socket-server.ts:236, 335, 368, 375, 381.
RoomMissing == "La salle n'existe pas encore"
NoCurrentRoom == "Impossible d'identifier la salle courante"
FormateurOnly == "Seul un formateur peut injecter un evenement"
RoomLost == "Salle introuvable cote serveur"
BadSeverity == "Severite invalide pour l'evenement"

\* socket.emit(ev, ...): one send to the socket itself.
EmitTo(c, ev, message) ==
    [ev |-> ev, room |-> None, to |-> {c}, payload |-> <<message>>]

\* server.to(code).emit(ev, ...): the adapter's members of the socket.io room
\* that are still connected.
Members(code) == {c \in sioRooms[code] : conn[c].st = "open"}

EmitRoom(code, ev, payload) ==
    [ev |-> ev, room |-> code, to |-> Members(code), payload |-> payload]

\* ------------------------------------------------------------- tasks
Task(kind, pc, c, code, name, admin, pid, rid, role, arg) ==
    [kind |-> kind, pc |-> pc, conn |-> c, code |-> code, name |-> name,
     admin |-> admin, pid |-> pid, rid |-> rid, role |-> role, arg |-> arg]

At(t, pc) == [t EXCEPT !.pc = pc]

\* Handlers in flight are told apart by their fields: a step that would put
\* a second handler with the very same fields at the very same place waits
\* until the first has moved on.
Spawn(t) == t \notin tasks /\ tasks' = tasks \cup {t}
Move(t, u) == u \notin tasks /\ tasks' = (tasks \ {t}) \cup {u}
Finish(t) == tasks' = tasks \ {t}

HasCapacity == Cardinality(tasks) < MaxTasks

\* What the last step was: a command received from a client, a call from
\* outside the gateway or a timer firing (with its inputs), or the resumption
\* of a suspended handler.
Label(op, c, arg, id) == [op |-> op, conn |-> c, arg |-> arg, id |-> id]

\* One more client command or timer firing of the run.
Command(op, c, arg, id) ==
    /\ budget > 0
    /\ budget' = budget - 1
    /\ last' = Label(op, c, arg, id)

\* A call that is no command of the run's budget.
Call(op, c) ==
    /\ last' = Label(op, c, None, Null)
    /\ UNCHANGED budget

\* A suspended handler resumes.
Resume ==
    /\ last' = Label("resume", None, None, Null)
    /\ UNCHANGED budget

\* roomConnections.get(code) === undefined
NoEntry == [present |-> FALSE, ids |-> {}]

NoData ==
    [st |-> "none", roomCode |-> None, roomId |-> Null, participantId |-> Null,
     displayName |-> None, isAdmin |-> FALSE]

\* ---------------------------------------------------- initial state
InitState ==
    /\ io = FALSE
    /\ listeners = 0
    /\ conn = [c \in Conns |-> NoData]
    /\ sioRooms = [r \in Codes |-> {}]
    /\ roomConnections = [r \in Codes |-> NoEntry]
    /\ activeSchedulers = {}
    /\ pendingTimers = [r \in Codes |-> 0]
    /\ rooms = <<>>
    /\ participants = <<>>
    /\ messages = <<>>
    /\ events = <<>>
    /\ now = 1
    /\ tasks = {}
    /\ emitted = <<>>
    /\ thrown = {}
    /\ last = Label("init", None, None, Null)

Init == InitState /\ budget = MaxCommands

InitSeq == InitState /\ budget = MaxSeqCommands

\* ------------------------------------------------------ the scheduler
\* Mutant of startRoomScheduler: a timer is armed whether or not the map
\* holds a handle for the code.
startRoomSchedulerAlways(code) ==
    /\ pendingTimers' = [pendingTimers EXCEPT ![code] = @ + 1]
    /\ activeSchedulers' = activeSchedulers \cup {code}

\* part_012 startRoomScheduler: a no-op when the map holds a handle for the
\* code; otherwise one timer is armed and its handle stored.
startRoomScheduler(code) ==
    IF code \in activeSchedulers
    THEN UNCHANGED <<activeSchedulers, pendingTimers>>
    ELSE /\ pendingTimers' = [pendingTimers EXCEPT ![code] = @ + 1]
         /\ activeSchedulers' = activeSchedulers \cup {code}

\* Mutant of TimersAfterStop: the handle is forgotten, its timer not cleared.
TimersKept(code) == pendingTimers

\* part_012 stopRoomScheduler, as the new values of the two maps.
TimersAfterStop(code) ==
    IF code \in activeSchedulers /\ pendingTimers[code] > 0
    THEN [pendingTimers EXCEPT ![code] = @ - 1]
    ELSE pendingTimers

stopRoomScheduler(code) ==
    /\ pendingTimers' = TimersAfterStop(code)
    /\ activeSchedulers' = activeSchedulers \ {code}

\* part_012:36-40 severityOptions: what tick() draws the severity from.
SchedulerSeverities == {"LOW", "MODERATE", "HIGH"}

\* Rows a handler in flight is still going to insert.
PendingEvents ==
    Cardinality({t \in tasks : t.kind \in {"event", "sched"}
                               /\ t.pc \in {"findRoom", "createEvent"}})

PendingMessages ==
    Cardinality({t \in tasks : t.kind \in {"event", "sched", "chat"}})

\* The timer of a room fires: tick() emits one event, every listener starts
\* consuming it (socket-server.ts:170-172, up to its first await), and tick
\* arms the next timer.
Tick(code, severity) ==
    /\ pendingTimers[code] > 0
    /\ Cardinality(tasks) + listeners <= MaxTasks
    /\ Len(events) + PendingEvents + listeners <= MaxEvents
    /\ Len(messages) + PendingMessages + listeners <= MaxMessages
    /\ \A k \in 1..listeners :
          Task("sched", "findRoom", None, toUpperCase(code), None, FALSE, k,
               Null, None, severity) \notin tasks
    /\ tasks' = tasks \cup
         {Task("sched", "findRoom", None, toUpperCase(code), None, FALSE, k,
               Null, None, severity) : k \in 1..listeners}
    /\ activeSchedulers' = activeSchedulers \cup {code}
    /\ UNCHANGED pendingTimers
    /\ emitted' = <<>>
    /\ thrown' = {}
    /\ Command("tick", None, code, Null)
    /\ UNCHANGED <<io, listeners, conn, sioRooms, roomConnections, rooms,
                   participants, messages, events, now>>

\* ------------------------------------------------------- the gateway
\* Mutant of createSocketServer: every call subscribes one more listener.
createSocketServerResubscribing ==
    /\ io' = TRUE
    /\ listeners' = listeners + 1
    /\ emitted' = <<>>
    /\ thrown' = {}
    /\ Call("createSocketServer", None)
    /\ UNCHANGED <<conn, sioRooms, roomConnections, activeSchedulers,
                   pendingTimers, rooms, participants, messages, events, now,
                   tasks>>

\* socket-server.ts createSocketServer, with subscribeToScheduler.
createSocketServer ==
    /\ io' = TRUE
    /\ listeners' = IF io \/ listeners > 0 THEN listeners ELSE listeners + 1
    /\ emitted' = <<>>
    /\ thrown' = {}
    /\ Call("createSocketServer", None)
    /\ UNCHANGED <<conn, sioRooms, roomConnections, activeSchedulers,
                   pendingTimers, rooms, participants, messages, events, now,
                   tasks>>

\* src/pages/api/socket.ts:29-31: the route creates the gateway when the HTTP
\* server holds none yet.
SocketApi ==
    /\ ~io
    /\ createSocketServer

\* A client opens a socket: the "connection" handler registers the handlers.
Connect(c) ==
    /\ io
    /\ conn[c].st = "none"
    /\ conn' = [conn EXCEPT ![c].st = "open"]
    /\ emitted' = <<>>
    /\ thrown' = {}
    /\ Call("connection", c)
    /\ UNCHANGED <<io, listeners, sioRooms, roomConnections, activeSchedulers,
                   pendingTimers, rooms, participants, messages, events, now,
                   tasks>>

\* --- room:join ------------------------------------------------------
\* A join will insert a Participant unless a row of its pair already exists.
JoinMayCreate(code, name) ==
    \/ findUniqueRoom(code) = Null
    \/ ParticipantIds(findUniqueRoom(code), name) = {}

PendingParticipants ==
    Cardinality({t \in tasks : t.kind = "join"
                               /\ t.pc \in {"findRoom", "createRoom",
                                            "findParticipant", "createParticipant"}
                               /\ JoinMayCreate(t.code, t.name)})

\* socket-server.ts:129-131 and 230-231: the handler starts and awaits
\* prisma.room.findUnique.
RoomJoin(c, raw, name, admin) ==
    /\ conn[c].st = "open"
    /\ HasCapacity
    /\ JoinMayCreate(toUpperCase(raw), name)
          => Len(participants) + PendingParticipants < MaxParticipants
    /\ Spawn(Task("join", "findRoom", c, toUpperCase(raw), name, admin, Null,
                  Null, None, None))
    /\ emitted' = <<>>
    /\ thrown' = {}
    /\ Command("room:join", c, toUpperCase(raw), Null)
    /\ UNCHANGED <<io, listeners, conn, sioRooms, roomConnections,
                   activeSchedulers, pendingTimers, rooms, participants,
                   messages, events, now>>

\* Mutant of JoinFindRoom: a missing room is created for whoever joins.
JoinFindRoomNoAdminCheck(t) ==
    /\ t.kind = "join" /\ t.pc = "findRoom"
    /\ IF findUniqueRoom(t.code) = Null
       THEN Move(t, At(t, "createRoom"))
       ELSE Move(t, [t EXCEPT !.pc = "findParticipant",
                              !.rid = findUniqueRoom(t.code)])
    /\ emitted' = <<>>
    /\ thrown' = {}
    /\ Resume
    /\ UNCHANGED <<io, listeners, conn, sioRooms, roomConnections,
                   activeSchedulers, pendingTimers, rooms, participants,
                   messages, events, now>>

\* socket-server.ts:231-248: the room is looked up; a non-admin is refused
\* when it does not exist, an admin goes on to create it.
JoinFindRoom(t) ==
    /\ t.kind = "join" /\ t.pc = "findRoom"
    /\ LET room == findUniqueRoom(t.code) IN
         IF room = Null
         THEN IF ~t.admin
              THEN /\ emitted' = <<EmitTo(t.conn, "system:error", RoomMissing)>>
                   /\ Finish(t)
              ELSE /\ emitted' = <<>>
                   /\ Move(t, At(t, "createRoom"))
         ELSE /\ emitted' = <<>>
              /\ Move(t, [t EXCEPT !.pc = "findParticipant", !.rid = room])
    /\ thrown' = {}
    /\ Resume
    /\ UNCHANGED <<io, listeners, conn, sioRooms, roomConnections,
                   activeSchedulers, pendingTimers, rooms, participants,
                   messages, events, now>>

\* socket-server.ts:241-247: prisma.room.create; the unique index on code
\* rejects a second row of the same code and the handler's promise rejects.
JoinCreateRoom(t) ==
    /\ t.kind = "join" /\ t.pc = "createRoom"
    /\ IF RoomCodeTaken(t.code)
       THEN /\ thrown' = {"P2002"}
            /\ Finish(t)
            /\ UNCHANGED rooms
       ELSE /\ thrown' = {}
            /\ rooms' = Append(rooms, [code |-> t.code, isActive |-> TRUE])
            /\ Move(t, [t EXCEPT !.pc = "findParticipant",
                                 !.rid = Len(rooms) + 1])
    /\ emitted' = <<>>
    /\ Resume
    /\ UNCHANGED <<io, listeners, conn, sioRooms, roomConnections,
                   activeSchedulers, pendingTimers, participants, messages,
                   events, now>>

\* Mutant of JoinFindParticipant: the lookup never finds the row.
JoinFindParticipantBlind(t) ==
    /\ t.kind = "join" /\ t.pc = "findParticipant"
    /\ Move(t, At(t, "createParticipant"))
    /\ emitted' = <<>>
    /\ thrown' = {}
    /\ Resume
    /\ UNCHANGED <<io, listeners, conn, sioRooms, roomConnections,
                   activeSchedulers, pendingTimers, rooms, participants,
                   messages, events, now>>

\* socket-server.ts:250-254: prisma.participant.findFirst, which returns any
\* one of the matching rows; the row's role is read here.
JoinFindParticipant(t) ==
    /\ t.kind = "join" /\ t.pc = "findParticipant"
    /\ IF ParticipantIds(t.rid, t.name) = {}
       THEN Move(t, At(t, "createParticipant"))
       ELSE \E p \in ParticipantIds(t.rid, t.name) :
               Move(t, [t EXCEPT !.pc = "updateParticipant", !.pid = p,
                                 !.role = participants[p].role])
    /\ emitted' = <<>>
    /\ thrown' = {}
    /\ Resume
    /\ UNCHANGED <<io, listeners, conn, sioRooms, roomConnections,
                   activeSchedulers, pendingTimers, rooms, participants,
                   messages, events, now>>

\* socket-server.ts:272-285: the socket joins the socket.io room, socket.data
\* is filled, the connection enters the Room Registry and an admin starts the
\* scheduler; then broadcastParticipants awaits findMany.
JoinAttach(t, pid) ==
    /\ sioRooms' = [sioRooms EXCEPT ![t.code] = @ \cup {t.conn}]
    /\ conn' = [conn EXCEPT ![t.conn] =
                  [@ EXCEPT !.roomCode = t.code, !.roomId = t.rid,
                            !.participantId = pid,
                            !.displayName = participants'[pid].displayName,
                            !.isAdmin = t.admin]]
    /\ roomConnections' =
         [roomConnections EXCEPT ![t.code] =
             [present |-> TRUE, ids |-> @.ids \cup {t.conn}]]
    /\ IF t.admin THEN startRoomScheduler(t.code)
       ELSE UNCHANGED <<activeSchedulers, pendingTimers>>
    /\ Move(t, [t EXCEPT !.pc = "broadcast", !.pid = pid])

\* socket-server.ts:255-262: prisma.participant.update of the row found.
JoinUpdateParticipant(t) ==
    /\ t.kind = "join" /\ t.pc = "updateParticipant"
    /\ participants' =
         [participants EXCEPT ![t.pid] =
             [@ EXCEPT !.isConnected = TRUE, !.leftAt = Null,
                       !.role = IF t.admin THEN "formateur" ELSE t.role]]
    /\ JoinAttach(t, t.pid)
    /\ emitted' = <<>>
    /\ thrown' = {}
    /\ Resume
    /\ UNCHANGED <<io, listeners, rooms, messages, events, now>>

\* socket-server.ts:263-270: prisma.participant.create.
JoinCreateParticipant(t) ==
    /\ t.kind = "join" /\ t.pc = "createParticipant"
    /\ Len(participants) < MaxParticipants
    /\ participants' =
         Append(participants,
                [roomId |-> t.rid, displayName |-> t.name,
                 role |-> IF t.admin THEN "formateur" ELSE "participant",
                 isConnected |-> TRUE, leftAt |-> Null])
    /\ JoinAttach(t, Len(participants) + 1)
    /\ emitted' = <<>>
    /\ thrown' = {}
    /\ Resume
    /\ UNCHANGED <<io, listeners, rooms, messages, events, now>>

\* socket-server.ts:287-291 and 422-447: the fresh participant list and the
\* join announcement go to the socket.io room.
JoinBroadcast(t) ==
    /\ t.kind = "join" /\ t.pc = "broadcast"
    /\ emitted' = <<EmitRoom(t.code, "participant:update",
                             findManyParticipants(t.rid)),
                    EmitRoom(t.code, "system:announcement", <<>>)>>
    /\ Finish(t)
    /\ thrown' = {}
    /\ Resume
    /\ UNCHANGED <<io, listeners, conn, sioRooms, roomConnections,
                   activeSchedulers, pendingTimers, rooms, participants,
                   messages, events, now>>

\* --- room:leave and disconnect ---------------------------------------
\* socket-server.ts:308-315: the id leaves the registry set of the code; an
\* emptied set is dropped and the room's scheduler stopped.
RegistryAfterLeave(code, c) ==
    IF ~roomConnections[code].present THEN roomConnections
    ELSE IF roomConnections[code].ids \ {c} = {}
         THEN [roomConnections EXCEPT ![code] = NoEntry]
         ELSE [roomConnections EXCEPT ![code].ids = @ \ {c}]

\* Mutant of LeaveRegistry: the emptied room's scheduler is left running.
LeaveRegistryNoStop(code, c) ==
    /\ roomConnections' = RegistryAfterLeave(code, c)
    /\ UNCHANGED <<activeSchedulers, pendingTimers>>

LeaveRegistry(code, c) ==
    /\ roomConnections' = RegistryAfterLeave(code, c)
    /\ IF roomConnections[code].present /\ roomConnections[code].ids \ {c} = {}
       THEN stopRoomScheduler(code)
       ELSE UNCHANGED <<activeSchedulers, pendingTimers>>

\* socket-server.ts:295-306: handleLeave up to its first await, for a socket
\* whose socket.data holds a participant.
LeaveTask(c, code) ==
    Task("leave", "update", c, code, None, FALSE, conn[c].participantId,
         conn[c].roomId, None, None)

\* socket-server.ts:134-139: room:leave with the room code of the payload.
\* Without a participant in socket.data nothing is awaited before the
\* registry is updated, and nothing is broadcast.
RoomLeave(c, raw) ==
    /\ conn[c].st = "open"
    /\ sioRooms' = [sioRooms EXCEPT ![toUpperCase(raw)] = @ \ {c}]
    /\ IF conn[c].participantId # Null
       THEN /\ HasCapacity
            /\ Spawn(LeaveTask(c, toUpperCase(raw)))
            /\ UNCHANGED <<roomConnections, activeSchedulers, pendingTimers>>
       ELSE /\ LeaveRegistry(toUpperCase(raw), c)
            /\ UNCHANGED tasks
    /\ emitted' = <<>>
    /\ thrown' = {}
    /\ Command("room:leave", c, toUpperCase(raw), Null)
    /\ UNCHANGED <<io, listeners, conn, rooms, participants, messages, events,
                   now>>

\* The reason socket.io gives the "disconnect" listener when the client or
\* its transport closes the socket.
ClientDisconnect == "transport close"

\* socket.io closes the socket (it leaves every socket.io room) and emits
\* "disconnect"; socket-server.ts:156-161 runs handleLeave when socket.data
\* holds a room code.
Disconnect(c) ==
    /\ conn[c].st = "open"
    /\ conn' = [conn EXCEPT ![c].st = "closed"]
    /\ sioRooms' = [r \in Codes |-> sioRooms[r] \ {c}]
    /\ IF conn[c].roomCode # None
       THEN /\ HasCapacity
            /\ Spawn([LeaveTask(c, toUpperCase(conn[c].roomCode))
                         EXCEPT !.arg = ClientDisconnect])
       ELSE UNCHANGED tasks
    /\ emitted' = <<>>
    /\ thrown' = {}
    /\ Command("disconnect", c, None, Null)
    /\ UNCHANGED <<io, listeners, roomConnections, activeSchedulers,
                   pendingTimers, rooms, participants, messages, events, now>>

\* socket-server.ts:301-319: updateMany marks the participant disconnected
\* (it matches no row when the participant was deleted), then the registry is
\* updated and broadcastParticipants awaits findMany.
LeaveUpdate(t) ==
    /\ t.kind = "leave" /\ t.pc = "update"
    /\ participants' =
         [i \in 1..Len(participants) |->
             IF i = t.pid /\ participants[i].roomId # Null
             THEN [participants[i] EXCEPT !.isConnected = FALSE, !.leftAt = now]
             ELSE participants[i]]
    /\ LeaveRegistry(t.code, t.conn)
    /\ Move(t, At(t, "broadcast"))
    /\ emitted' = <<>>
    /\ thrown' = {}
    /\ Resume
    /\ UNCHANGED <<io, listeners, conn, sioRooms, rooms, messages, events, now>>

\* socket-server.ts:318-325: the participant list of socket.data.roomId and
\* the leave announcement go to the socket.io room of the code.
LeaveBroadcast(t) ==
    /\ t.kind = "leave" /\ t.pc = "broadcast"
    /\ emitted' =
         <<EmitRoom(t.code, "participant:update", findManyParticipants(t.rid))>>
         \o (IF conn[t.conn].displayName # None
             THEN <<EmitRoom(t.code, "system:announcement", <<>>)>>
             ELSE <<>>)
    /\ Finish(t)
    /\ thrown' = {}
    /\ Resume
    /\ UNCHANGED <<io, listeners, conn, sioRooms, roomConnections,
                   activeSchedulers, pendingTimers, rooms, participants,
                   messages, events, now>>

\* --- chat:message ----------------------------------------------------
\* socket-server.ts:333-351: without a room in socket.data the sender gets an
\* error; blank content is dropped; otherwise message.create is awaited.
ChatMessage(c, content) ==
    /\ conn[c].st = "open"
    /\ IF conn[c].roomId = Null \/ conn[c].roomCode = None
       THEN /\ emitted' = <<EmitTo(c, "system:error", NoCurrentRoom)>>
            /\ UNCHANGED tasks
       ELSE IF trim(content) = ""
       THEN /\ emitted' = <<>>
            /\ UNCHANGED tasks
       ELSE /\ HasCapacity
            /\ Len(messages) + PendingMessages < MaxMessages
            /\ emitted' = <<>>
            /\ Spawn(Task("chat", "create", c, conn[c].roomCode,
                          conn[c].displayName, FALSE, Null, conn[c].roomId,
                          None, trim(content)))
    /\ thrown' = {}
    /\ Command("chat:message", c, content, Null)
    /\ UNCHANGED <<io, listeners, conn, sioRooms, roomConnections,
                   activeSchedulers, pendingTimers, rooms, participants,
                   messages, events, now>>

\* Mutant of ChatCreate: the message is broadcast but not stored.
ChatCreateUnstored(t) ==
    /\ t.kind = "chat" /\ t.pc = "create"
    /\ UNCHANGED messages
    /\ emitted' = <<EmitRoom(t.code, "chat:message", <<Len(messages) + 1>>)>>
    /\ thrown' = {}
    /\ Finish(t)
    /\ Resume
    /\ UNCHANGED <<io, listeners, conn, sioRooms, roomConnections,
                   activeSchedulers, pendingTimers, rooms, participants,
                   events, now>>

\* socket-server.ts:344-358: the message is stored, then broadcast;
\* Message_roomId_fkey rejects the row of a deleted room and the handler's
\* promise rejects.
ChatCreate(t) ==
    /\ t.kind = "chat" /\ t.pc = "create"
    /\ IF RoomExists(t.rid)
       THEN /\ messages' =
                 Append(messages,
                        [roomId |-> t.rid, authorName |-> t.name,
                         type |-> "CHAT", content |-> t.arg,
                         metadata |-> [severity |-> None, source |-> None]])
            /\ emitted' =
                 <<EmitRoom(t.code, "chat:message", <<Len(messages) + 1>>)>>
            /\ thrown' = {}
       ELSE /\ UNCHANGED messages
            /\ emitted' = <<>>
            /\ thrown' = {"P2003"}
    /\ Finish(t)
    /\ Resume
    /\ UNCHANGED <<io, listeners, conn, sioRooms, roomConnections,
                   activeSchedulers, pendingTimers, rooms, participants,
                   events, now>>

\* --- event:create ----------------------------------------------------
\* Mutant of ManualEvent: the admin flag is not checked.
ManualEventNoAdminCheck(c, severity) ==
    /\ conn[c].st = "open"
    /\ IF conn[c].roomId = Null \/ conn[c].roomCode = None
       THEN /\ emitted' = <<EmitTo(c, "system:error", RoomLost)>>
            /\ UNCHANGED tasks
       ELSE IF ~hasSeverity(toUpperCase(severity))
       THEN /\ emitted' = <<EmitTo(c, "system:error", BadSeverity)>>
            /\ UNCHANGED tasks
       ELSE /\ HasCapacity
            /\ emitted' = <<>>
            /\ Spawn(Task("event", "createEvent", c, conn[c].roomCode, None,
                          TRUE, Null, conn[c].roomId, None,
                          toUpperCase(severity)))
    /\ thrown' = {}
    /\ Command("event:create", c, severity, Null)
    /\ UNCHANGED <<io, listeners, conn, sioRooms, roomConnections,
                   activeSchedulers, pendingTimers, rooms, participants,
                   messages, events, now>>

\* socket-server.ts:366-393: the admin flag, the room and the severity are
\* checked, each failure answered with an error to the sender; then
\* crisisEvent.create is awaited.
ManualEvent(c, severity) ==
    /\ conn[c].st = "open"
    /\ IF ~conn[c].isAdmin
       THEN /\ emitted' = <<EmitTo(c, "system:error", FormateurOnly)>>
            /\ UNCHANGED tasks
       ELSE IF conn[c].roomId = Null \/ conn[c].roomCode = None
       THEN /\ emitted' = <<EmitTo(c, "system:error", RoomLost)>>
            /\ UNCHANGED tasks
       ELSE IF ~hasSeverity(toUpperCase(severity))
       THEN /\ emitted' = <<EmitTo(c, "system:error", BadSeverity)>>
            /\ UNCHANGED tasks
       ELSE /\ HasCapacity
            /\ Len(events) + PendingEvents < MaxEvents
            /\ Len(messages) + PendingMessages < MaxMessages
            /\ emitted' = <<>>
            /\ Spawn(Task("event", "createEvent", c, conn[c].roomCode, None,
                          TRUE, Null, conn[c].roomId, None,
                          toUpperCase(severity)))
    /\ thrown' = {}
    /\ Command("event:create", c, severity, Null)
    /\ UNCHANGED <<io, listeners, conn, sioRooms, roomConnections,
                   activeSchedulers, pendingTimers, rooms, participants,
                   messages, events, now>>

\* socket-server.ts:385-393 and 184-193: crisisEvent.create.
CreateEvent(t, source) ==
    /\ events' = Append(events,
                        [roomId |-> t.rid, severity |-> t.arg,
                         source |-> source, triggeredAt |-> now,
                         ackAt |-> Null])
    /\ Move(t, [t EXCEPT !.pc = "createMessage", !.pid = Len(events) + 1])

\* Mutant of CreateEventMessage: the announcement is not sent.
CreateEventMessageQuiet(t, author, source) ==
    /\ messages' = Append(messages,
                          [roomId |-> t.rid, authorName |-> author,
                           type |-> "EVENT", content |-> "description",
                           metadata |-> [severity |-> t.arg,
                                         source |-> source]])
    /\ emitted' = <<EmitRoom(t.code, "event:created", <<t.pid>>)>>
    /\ Finish(t)

\* socket-server.ts:395-419 and 195-219: message.create of the companion
\* Message, then event:created and the announcement go to the room.
CreateEventMessage(t, author, source) ==
    /\ messages' = Append(messages,
                          [roomId |-> t.rid, authorName |-> author,
                           type |-> "EVENT", content |-> "description",
                           metadata |-> [severity |-> t.arg,
                                         source |-> source]])
    /\ emitted' = <<EmitRoom(t.code, "event:created", <<t.pid>>),
                    EmitRoom(t.code, "system:announcement", <<>>)>>
    /\ Finish(t)

\* socket-server.ts:385-393: CrisisEvent_roomId_fkey rejects the row of a
\* deleted room and the handler's promise rejects.
ManualCreateEvent(t) ==
    /\ t.kind = "event" /\ t.pc = "createEvent"
    /\ IF RoomExists(t.rid)
       THEN /\ CreateEvent(t, "MANUAL")
            /\ thrown' = {}
       ELSE /\ UNCHANGED events
            /\ Finish(t)
            /\ thrown' = {"P2003"}
    /\ emitted' = <<>>
    /\ Resume
    /\ UNCHANGED <<io, listeners, conn, sioRooms, roomConnections,
                   activeSchedulers, pendingTimers, rooms, participants,
                   messages, now>>

ManualCreateMessage(t) ==
    /\ t.kind = "event" /\ t.pc = "createMessage"
    /\ CreateEventMessage(t, IF conn[t.conn].displayName # None
                             THEN conn[t.conn].displayName ELSE "Formateur",
                          "MANUAL")
    /\ thrown' = {}
    /\ Resume
    /\ UNCHANGED <<io, listeners, conn, sioRooms, roomConnections,
                   activeSchedulers, pendingTimers, rooms, participants,
                   events, now>>

\* --- event:ack -------------------------------------------------------
\* socket-server.ts:149-154: updateMany sets ackAt of the events of that id.
EventAck(c, eventId) ==
    /\ conn[c].st = "open"
    /\ HasCapacity
    /\ Spawn(Task("ack", "update", c, None, None, FALSE, eventId, Null, None,
                  None))
    /\ emitted' = <<>>
    /\ thrown' = {}
    /\ Command("event:ack", c, None, eventId)
    /\ UNCHANGED <<io, listeners, conn, sioRooms, roomConnections,
                   activeSchedulers, pendingTimers, rooms, participants,
                   messages, events, now>>

\* Mutant of AckUpdate: acknowledging an acknowledged event clears its ackAt.
AckUpdateToggle(t) ==
    /\ t.kind = "ack" /\ t.pc = "update"
    /\ events' = [i \in 1..Len(events) |->
                    IF i = t.pid
                    THEN [events[i] EXCEPT
                            !.ackAt = IF @ = Null THEN now ELSE Null]
                    ELSE events[i]]
    /\ Finish(t)
    /\ emitted' = <<>>
    /\ thrown' = {}
    /\ Resume
    /\ UNCHANGED <<io, listeners, conn, sioRooms, roomConnections,
                   activeSchedulers, pendingTimers, rooms, participants,
                   messages, now>>

\* Mutant of AckUpdate: update in place of updateMany, which rejects when no
\* row has the id.
AckUpdateOne(t) ==
    /\ t.kind = "ack" /\ t.pc = "update"
    /\ IF t.pid \in 1..Len(events)
       THEN /\ events' = [events EXCEPT ![t.pid].ackAt = now]
            /\ thrown' = {}
       ELSE /\ UNCHANGED events
            /\ thrown' = {"P2025"}
    /\ Finish(t)
    /\ emitted' = <<>>
    /\ Resume
    /\ UNCHANGED <<io, listeners, conn, sioRooms, roomConnections,
                   activeSchedulers, pendingTimers, rooms, participants,
                   messages, now>>

AckUpdate(t) ==
    /\ t.kind = "ack" /\ t.pc = "update"
    /\ events' = [i \in 1..Len(events) |->
                    IF i = t.pid /\ events[i].roomId # Null
                    THEN [events[i] EXCEPT !.ackAt = now]
                    ELSE events[i]]
    /\ Finish(t)
    /\ emitted' = <<>>
    /\ thrown' = {}
    /\ Resume
    /\ UNCHANGED <<io, listeners, conn, sioRooms, roomConnections,
                   activeSchedulers, pendingTimers, rooms, participants,
                   messages, now>>

\* --- scheduler consumption -------------------------------------------
\* Mutant of SchedFindRoom: the emission is consumed whether or not its room
\* is found.
SchedFindRoomNoCheck(t) ==
    /\ t.kind = "sched" /\ t.pc = "findRoom"
    /\ Move(t, [t EXCEPT !.pc = "createEvent", !.pid = Null,
                         !.rid = findUniqueRoom(t.code),
                         !.arg = toUpperCase(t.arg)])
    /\ emitted' = <<>>
    /\ thrown' = {}
    /\ Resume
    /\ UNCHANGED <<io, listeners, conn, sioRooms, roomConnections,
                   activeSchedulers, pendingTimers, rooms, participants,
                   messages, events, now>>

\* socket-server.ts:172-182: the room of the emission is looked up; the
\* emission is dropped when it is gone or its severity is no enum key.
SchedFindRoom(t) ==
    /\ t.kind = "sched" /\ t.pc = "findRoom"
    /\ IF findUniqueRoom(t.code) = Null \/ ~hasSeverity(toUpperCase(t.arg))
       THEN Finish(t)
       ELSE Move(t, [t EXCEPT !.pc = "createEvent", !.pid = Null,
                              !.rid = findUniqueRoom(t.code),
                              !.arg = toUpperCase(t.arg)])
    /\ emitted' = <<>>
    /\ thrown' = {}
    /\ Resume
    /\ UNCHANGED <<io, listeners, conn, sioRooms, roomConnections,
                   activeSchedulers, pendingTimers, rooms, participants,
                   messages, events, now>>

SchedCreateEvent(t) ==
    /\ t.kind = "sched" /\ t.pc = "createEvent"
    /\ CreateEvent(t, "SCHEDULER")
    /\ emitted' = <<>>
    /\ thrown' = {}
    /\ Resume
    /\ UNCHANGED <<io, listeners, conn, sioRooms, roomConnections,
                   activeSchedulers, pendingTimers, rooms, participants,
                   messages, now>>

SchedCreateMessage(t) ==
    /\ t.kind = "sched" /\ t.pc = "createMessage"
    /\ CreateEventMessage(t, "Scheduler", "SCHEDULER")
    /\ thrown' = {}
    /\ Resume
    /\ UNCHANGED <<io, listeners, conn, sioRooms, roomConnections,
                   activeSchedulers, pendingTimers, rooms, participants,
                   events, now>>

\* --- room closure (part_003 closeRoomAction) --------------------------
\* part_003:316-319: the admin page binds the id and code of a listed room.
CloseRoom(roomId) ==
    /\ RoomExists(roomId)
    /\ HasCapacity
    /\ Spawn(Task("close", "updateRoom", None, rooms[roomId].code, None, FALSE,
                  Null, roomId, None, None))
    /\ emitted' = <<>>
    /\ thrown' = {}
    /\ Command("closeRoomAction", None, None, roomId)
    /\ UNCHANGED <<io, listeners, conn, sioRooms, roomConnections,
                   activeSchedulers, pendingTimers, rooms, participants,
                   messages, events, now>>

\* part_003:23-26: room.update marks the room inactive.
CloseUpdateRoom(t) ==
    /\ t.kind = "close" /\ t.pc = "updateRoom"
    /\ rooms' = [rooms EXCEPT ![t.rid].isActive = FALSE]
    /\ Move(t, At(t, "updateParticipants"))
    /\ emitted' = <<>>
    /\ thrown' = {}
    /\ Resume
    /\ UNCHANGED <<io, listeners, conn, sioRooms, roomConnections,
                   activeSchedulers, pendingTimers, participants, messages,
                   events, now>>

\* The sockets io.in(code).fetchSockets() returns.
SocketsIn(code) == Members(code)

\* The reason socket.io gives the "disconnect" handlers of a socket closed by
\* socket.disconnect(true).
ServerDisconnect == "server namespace disconnect"

\* Mutant of CloseUpdateParticipants: the sockets are notified before the
\* participants are marked and the scheduler stopped, so that a missing
\* gateway ends the action before either is done.
CloseNotifyFirst(t) ==
    /\ t.kind = "close" /\ t.pc = "updateParticipants"
    /\ IF ~io
       THEN /\ emitted' = <<>>
            /\ Finish(t)
            /\ UNCHANGED <<conn, sioRooms, participants, activeSchedulers,
                           pendingTimers>>
       ELSE LET code == toUpperCase(t.code)
                sockets == SocketsIn(code)
            IN /\ participants' =
                    [i \in 1..Len(participants) |->
                        IF participants[i].roomId = t.rid
                           /\ participants[i].isConnected
                        THEN [participants[i] EXCEPT !.isConnected = FALSE,
                                                     !.leftAt = now]
                        ELSE participants[i]]
               /\ stopRoomScheduler(code)
               /\ emitted' = <<EmitRoom(code, "system:announcement", <<>>)>>
               /\ conn' = [c \in Conns |->
                             IF c \in sockets
                             THEN [conn[c] EXCEPT !.st = "closed"]
                             ELSE conn[c]]
               /\ sioRooms' = [r \in Codes |-> sioRooms[r] \ sockets]
               /\ \A c \in {s \in sockets : conn[s].roomCode # None} :
                     [LeaveTask(c, toUpperCase(conn[c].roomCode))
                         EXCEPT !.arg = ServerDisconnect] \notin tasks
               /\ tasks' = (tasks \ {t}) \cup
                    {[LeaveTask(c, toUpperCase(conn[c].roomCode))
                         EXCEPT !.arg = ServerDisconnect] :
                        c \in {s \in sockets : conn[s].roomCode # None}}
               /\ Cardinality(tasks') <= MaxTasks
    /\ thrown' = {}
    /\ Resume
    /\ UNCHANGED <<io, listeners, roomConnections, rooms, messages, events,
                   now>>

\* part_003:29-53: updateMany marks the connected participants of the room
\* disconnected, the scheduler of the code is stopped, and, when the gateway
\* exists, the room is told and each of its sockets is disconnected: its
\* "disconnect" handler starts at once (socket-server.ts:156-161).  The
\* in-memory adapter answers fetchSockets within the same turn of the loop.
CloseUpdateParticipants(t) ==
    /\ t.kind = "close" /\ t.pc = "updateParticipants"
    /\ participants' =
         [i \in 1..Len(participants) |->
             IF participants[i].roomId = t.rid /\ participants[i].isConnected
             THEN [participants[i] EXCEPT !.isConnected = FALSE, !.leftAt = now]
             ELSE participants[i]]
    /\ stopRoomScheduler(toUpperCase(t.code))
    /\ IF ~io
       THEN /\ emitted' = <<>>
            /\ Finish(t)
            /\ UNCHANGED <<conn, sioRooms>>
       ELSE LET code == toUpperCase(t.code)
                sockets == SocketsIn(code)
            IN /\ emitted' = <<EmitRoom(code, "system:announcement", <<>>)>>
               /\ conn' = [c \in Conns |->
                             IF c \in sockets
                             THEN [conn[c] EXCEPT !.st = "closed"]
                             ELSE conn[c]]
               /\ sioRooms' = [r \in Codes |-> sioRooms[r] \ sockets]
               /\ \A c \in {s \in sockets : conn[s].roomCode # None} :
                     [LeaveTask(c, toUpperCase(conn[c].roomCode))
                         EXCEPT !.arg = ServerDisconnect] \notin tasks
               /\ tasks' = (tasks \ {t}) \cup
                    {[LeaveTask(c, toUpperCase(conn[c].roomCode))
                         EXCEPT !.arg = ServerDisconnect] :
                        c \in {s \in sockets : conn[s].roomCode # None}}
               /\ Cardinality(tasks') <= MaxTasks
    /\ thrown' = {}
    /\ Resume
    /\ UNCHANGED <<io, listeners, roomConnections, rooms, messages, events,
                   now>>

\* ------------------------------------------------------ specification
\* What arrives from outside: client commands, closeRoomAction, a timer.
Commands ==
    \/ \E c \in Conns, raw \in RawCodes, name \in Names, admin \in BOOLEAN :
          RoomJoin(c, raw, name, admin)
    \/ \E c \in Conns, raw \in RawCodes : RoomLeave(c, raw)
    \/ \E c \in Conns : Disconnect(c)
    \/ \E c \in Conns, content \in Contents : ChatMessage(c, content)
    \/ \E c \in Conns, severity \in RawSeverities : ManualEvent(c, severity)
    \/ \E c \in Conns, eventId \in 1..MaxEvents : EventAck(c, eventId)
    \/ \E code \in Codes, severity \in SchedulerSeverities : Tick(code, severity)
    \/ \E roomId \in 1..Cardinality(Codes) : CloseRoom(roomId)

\* A suspended handler resumes with the result of its persistence call.
Resumptions ==
    \/ \E t \in tasks : JoinFindRoom(t)
    \/ \E t \in tasks : JoinCreateRoom(t)
    \/ \E t \in tasks : JoinFindParticipant(t)
    \/ \E t \in tasks : JoinUpdateParticipant(t)
    \/ \E t \in tasks : JoinCreateParticipant(t)
    \/ \E t \in tasks : JoinBroadcast(t)
    \/ \E t \in tasks : LeaveUpdate(t)
    \/ \E t \in tasks : LeaveBroadcast(t)
    \/ \E t \in tasks : ChatCreate(t)
    \/ \E t \in tasks : ManualCreateEvent(t)
    \/ \E t \in tasks : ManualCreateMessage(t)
    \/ \E t \in tasks : AckUpdate(t)
    \/ \E t \in tasks : SchedFindRoom(t)
    \/ \E t \in tasks : SchedCreateEvent(t)
    \/ \E t \in tasks : SchedCreateMessage(t)
    \/ \E t \in tasks : CloseUpdateRoom(t)
    \/ \E t \in tasks : CloseUpdateParticipants(t)

\* The gateway with its handlers interleaving at their awaits.
Next ==
    \/ SocketApi
    \/ \E c \in Conns : Connect(c)
    \/ Commands
    \/ Resumptions

Spec == Init /\ [][Next]_vars

\* The same gateway when every handler has run to completion before the next
\* command arrives: the runs "in sequence" of the contract.
NextSeq ==
    \/ SocketApi
    \/ \E c \in Conns : Connect(c)
    \/ tasks = {} /\ Commands
    \/ Resumptions

SpecSeq == InitSeq /\ [][NextSeq]_vars

\* The server process starts again on the database an earlier run left: the
\* module state is fresh (no gateway yet, empty registry, no timer), while
\* room R1, its participant Ana, still marked connected, and possibly a
\* CrisisEvent nobody acknowledged are stored.
InitRestart ==
    /\ io = FALSE
    /\ listeners = 0
    /\ conn = [c \in Conns |-> NoData]
    /\ sioRooms = [r \in Codes |-> {}]
    /\ roomConnections = [r \in Codes |-> NoEntry]
    /\ activeSchedulers = {}
    /\ pendingTimers = [r \in Codes |-> 0]
    /\ rooms = <<[code |-> "R1", isActive |-> TRUE]>>
    /\ participants = <<[roomId |-> 1, displayName |-> "Ana",
                         role |-> "participant", isConnected |-> TRUE,
                         leftAt |-> Null]>>
    /\ messages = <<>>
    /\ events \in {<<>>,
                   <<[roomId |-> 1, severity |-> "HIGH", source |-> "SCHEDULER",
                      triggeredAt |-> 1, ackAt |-> Null]>>}
    /\ now = 1
    /\ tasks = {}
    /\ emitted = <<>>
    /\ thrown = {}
    /\ last = Label("init", None, None, Null)
    /\ budget = MaxRestartCommands

\* Time passes: new Date() reads a later instant.
AdvanceClock ==
    /\ now < MaxNow
    /\ now' = now + 1
    /\ emitted' = <<>>
    /\ thrown' = {}
    /\ Call("clock", None)
    /\ UNCHANGED <<io, listeners, conn, sioRooms, roomConnections,
                   activeSchedulers, pendingTimers, rooms, participants,
                   messages, events, tasks>>

NextRestart ==
    \/ Next
    \/ AdvanceClock

\* The gateway, its handlers interleaving, after a restart of the server.
SpecRestart == InitRestart /\ [][NextRestart]_vars

\* A Room row is deleted from the database outside the gateway (Prisma Studio,
\* a reset of a disposable database) while no handler is in flight; the
\* foreign keys ON DELETE CASCADE delete its participants, messages and
\* events with it. The gateway's memory is not told.
DeleteRoom(roomId) ==
    /\ tasks = {}
    /\ RoomExists(roomId)
    /\ rooms' = [rooms EXCEPT ![roomId].code = None]
    /\ participants' =
         [i \in 1..Len(participants) |->
             IF participants[i].roomId = roomId
             THEN [participants[i] EXCEPT !.roomId = Null]
             ELSE participants[i]]
    /\ messages' =
         [i \in 1..Len(messages) |->
             IF messages[i].roomId = roomId
             THEN [messages[i] EXCEPT !.roomId = Null]
             ELSE messages[i]]
    /\ events' =
         [i \in 1..Len(events) |->
             IF events[i].roomId = roomId
             THEN [events[i] EXCEPT !.roomId = Null]
             ELSE events[i]]
    /\ emitted' = <<>>
    /\ thrown' = {}
    /\ Call("deleteRoom", None)
    /\ UNCHANGED <<io, listeners, conn, sioRooms, roomConnections,
                   activeSchedulers, pendingTimers, now, tasks>>

InitDelete == InitState /\ budget = MaxDeleteCommands

NextDelete ==
    \/ Next
    \/ \E roomId \in 1..Len(rooms) : DeleteRoom(roomId)

\* The gateway, its handlers interleaving, on a database whose rooms may be
\* deleted under it.
SpecDelete == InitDelete /\ [][NextDelete]_vars

\* schedulerEvents.emit("event", payload) of part_012:43-49, as one emit.
SchedulerEmit(code, severity) ==
    [ev |-> "scheduler:event", room |-> None, to |-> {},
     payload |-> <<code, severity>>]

\* Mutant of TimerFires: tick emits but arms no next timer.
TimerFiresOnce(code, severity) ==
    /\ pendingTimers[code] > 0
    /\ emitted' = <<SchedulerEmit(code, severity)>>
    /\ pendingTimers' = [pendingTimers EXCEPT ![code] = @ - 1]
    /\ activeSchedulers' = activeSchedulers \cup {code}
    /\ thrown' = {}
    /\ last' = Label("tick", None, code, Null)
    /\ UNCHANGED budget
    /\ UNCHANGED <<io, listeners, conn, sioRooms, roomConnections, rooms,
                   participants, messages, events, now, tasks>>

\* part_012:35-53, the scheduler on its own: the timer of a room fires, tick
\* draws a severity, emits one event and arms the next timer, whose handle
\* replaces the fired one in the map. The listener is an async function: it
\* cannot throw into tick, and what it stores is left out here (Tick and
\* SchedFindRoom model it), so that ticks can go on without end.
TimerFires(code, severity) ==
    /\ pendingTimers[code] > 0
    /\ emitted' = <<SchedulerEmit(code, severity)>>
    /\ pendingTimers' = [pendingTimers EXCEPT ![code] = (@ - 1) + 1]
    /\ activeSchedulers' = activeSchedulers \cup {code}
    /\ thrown' = {}
    /\ last' = Label("tick", None, code, Null)
    /\ UNCHANGED budget
    /\ UNCHANGED <<io, listeners, conn, sioRooms, roomConnections, rooms,
                   participants, messages, events, now, tasks>>

InitLive == InitState /\ budget = MaxLiveCommands

\* The commands and handlers that start and stop schedulers, and the timers.
NextLive ==
    \/ SocketApi
    \/ \E c \in Conns : Connect(c)
    \/ \E c \in Conns, raw \in RawCodes, name \in Names, admin \in BOOLEAN :
          RoomJoin(c, raw, name, admin)
    \/ \E c \in Conns, raw \in RawCodes : RoomLeave(c, raw)
    \/ \E c \in Conns : Disconnect(c)
    \/ \E roomId \in 1..Cardinality(Codes) : CloseRoom(roomId)
    \/ \E t \in tasks : JoinFindRoom(t)
    \/ \E t \in tasks : JoinCreateRoom(t)
    \/ \E t \in tasks : JoinFindParticipant(t)
    \/ \E t \in tasks : JoinUpdateParticipant(t)
    \/ \E t \in tasks : JoinCreateParticipant(t)
    \/ \E t \in tasks : JoinBroadcast(t)
    \/ \E t \in tasks : LeaveUpdate(t)
    \/ \E t \in tasks : LeaveBroadcast(t)
    \/ \E t \in tasks : CloseUpdateRoom(t)
    \/ \E t \in tasks : CloseUpdateParticipants(t)
    \/ \E code \in Codes, severity \in SchedulerSeverities :
          TimerFires(code, severity)

\* Node fires a pending timer when it is due: an armed timer that stays
\* armed does fire.
TimerFairness ==
    \A code \in Codes :
        WF_vars(\E severity \in SchedulerSeverities : TimerFires(code, severity))

SpecLive == InitLive /\ [][NextLive]_vars /\ TimerFairness

InitCreate == InitState /\ budget = MaxCreateCommands

\* createSocketServer is called at any time, whether or not the gateway
\* exists, next to everything else that happens.
NextCreate ==
    \/ Next
    \/ createSocketServer

SpecCreate == InitCreate /\ [][NextCreate]_vars

\* ===================================================================
\* Properties
\* ===================================================================
\* The task t took its step: a handler leaves its place only by resuming.
Stepped(t) == t \in tasks /\ t \notin tasks'

\* Everything the gateway keeps or stores, but the handlers in flight.
Kept == <<conn, sioRooms, roomConnections, activeSchedulers, pendingTimers,
          rooms, participants, messages, events>>

\* The emit calls of the last step that address a socket.io room.
Broadcasts(ems) == {k \in 1..Len(ems) : ems[k].room # None}

\* C1: a join with admin=false whose room lookup finds no Room creates no
\* Room and no Participant, leaves the Room Registry, the socket.io rooms,
\* the timers and the connection's socket.data as they were, broadcasts
\* nothing, and ends the handler with exactly one system:error ("room does
\* not exist"), sent to the originating connection only.  The arrival of the
\* command itself only starts the handler.
C1_JoinNotFound ==
    [][/\ last'.op = "room:join" =>
            /\ UNCHANGED Kept
            /\ emitted' = <<>>
            /\ thrown' = {}
       /\ \A t \in tasks :
            (/\ Stepped(t)
             /\ t.kind = "join" /\ t.pc = "findRoom"
             /\ ~t.admin
             /\ findUniqueRoom(t.code) = Null)
            => /\ tasks' = tasks \ {t}
               /\ UNCHANGED Kept
               /\ emitted' = <<EmitTo(t.conn, "system:error", RoomMissing)>>
               /\ thrown' = {}]_vars

\* C1 witness: one room exists, a connection that never joined has just been
\* refused on another code.
C1_Witness ==
    \E c \in Conns :
        /\ emitted = <<EmitTo(c, "system:error", RoomMissing)>>
        /\ conn[c].roomCode = None
        /\ Len(rooms) = 1
        /\ Len(participants) = 1

\* closeRoomAction has run to its end for the code.
ClosureCompleted(code) ==
    \E i \in 1..Len(rooms) :
        /\ rooms[i].code = code
        /\ ~rooms[i].isActive
        /\ \A t \in tasks : ~(t.kind = "close" /\ t.rid = i)

\* C2 (as claimed): once the close action has completed for a room code, no
\* scheduler timer fires for that code any more, whoever joins afterwards.
C2_NoTickAfterClose ==
    [][\A code \in Codes :
          ClosureCompleted(code) => ~(last'.op = "tick" /\ last'.arg = code)]_vars

\* The rows of every (room, displayName) pair are at most one.
UniquePairs ==
    \A i \in 1..Len(rooms), n \in Names : Cardinality(ParticipantIds(i, n)) <= 1

\* C3: when joins do not overlap, every (room, displayName) pair has at most
\* one Participant row, exactly one once a join of the pair has written; a
\* join that finds the row of its pair updates that row (connected, leftAt
\* cleared) and inserts nothing, and only a join that finds none inserts one.
C3_SequentialJoins ==
    /\ [](/\ UniquePairs
          /\ \A t \in tasks :
               (t.kind = "join" /\ t.pc = "broadcast")
               => Cardinality(ParticipantIds(t.rid, t.name)) = 1)
    /\ [][\A t \in tasks :
            (/\ Stepped(t)
             /\ t.kind = "join"
             /\ t.pc \in {"updateParticipant", "createParticipant"})
            => IF ParticipantIds(t.rid, t.name) # {}
               THEN /\ Len(participants') = Len(participants)
                    /\ \A p \in ParticipantIds(t.rid, t.name) :
                         /\ participants'[p].isConnected
                         /\ participants'[p].leftAt = Null
               ELSE /\ Len(participants') = Len(participants) + 1
                    /\ Cardinality(ParticipantIds(t.rid, t.name)') = 1]_vars

\* C3 witness: a connection joined, disconnected, and another connection has
\* joined under the same name: both hold the id of the one row of the pair.
C3_Witness ==
    \E c, d \in Conns :
        /\ c # d
        /\ conn[c].st = "closed"
        /\ conn[d].st = "open"
        /\ conn[c].participantId # Null
        /\ conn[c].participantId = conn[d].participantId
        /\ participants[conn[d].participantId].isConnected
        /\ tasks = {}

\* C4 (as claimed): at most one Participant row per (room, displayName) in
\* every reachable state, also when the joins of two connections interleave.
C4_UniquePairsAlways ==
    \A i \in 1..Len(rooms), n \in Names :
        \A p, q \in ParticipantIds(i, n) : p = q

\* C5: an event:create from a connection whose socket.data holds no admin
\* flag stores no CrisisEvent and no Message, starts no handler, changes
\* nothing the gateway keeps, broadcasts nothing, and sends exactly one
\* system:error ("formateur only") to the originating connection.
C5_NonAdminEvent ==
    [][(last'.op = "event:create" /\ ~conn[last'.conn].isAdmin)
          => /\ emitted' = <<EmitTo(last'.conn, "system:error", FormateurOnly)>>
             /\ UNCHANGED Kept
             /\ UNCHANGED tasks
             /\ thrown' = {}]_vars

\* C5 witness: a connection that joined without the admin flag has just been
\* refused, with a valid severity.
C5_Witness ==
    /\ last.op = "event:create"
    /\ last.arg = "CRITICAL"
    /\ conn[last.conn].roomCode # None
    /\ ~conn[last.conn].isAdmin
    /\ emitted = <<EmitTo(last.conn, "system:error", FormateurOnly)>>

\* An event:create of an admin is refused as invalid.
RejectedAsInvalid ==
    /\ emitted' = <<EmitTo(last'.conn, "system:error", BadSeverity)>>
    /\ UNCHANGED Kept
    /\ UNCHANGED tasks
    /\ thrown' = {}

\* C6 (as claimed): every stored CrisisEvent has a severity of the enum, and
\* an admin's event:create with a severity value outside the enum is refused.
C6_SeverityOutsideEnumRejected ==
    /\ [](\A i \in 1..Len(events) : events[i].severity \in CrisisSeverity)
    /\ [][(/\ last'.op = "event:create"
           /\ conn[last'.conn].isAdmin
           /\ last'.arg \notin CrisisSeverity)
          => RejectedAsInvalid]_vars

\* C6 (amended): every stored CrisisEvent has a severity of the enum, and an
\* admin's event:create whose severity, once upper-cased, is outside the enum
\* is refused with the validation error to the originator: nothing is
\* stored, nothing broadcast, no handler started.
C6_SeverityValidated ==
    /\ [](\A i \in 1..Len(events) : events[i].severity \in CrisisSeverity)
    /\ [][(/\ last'.op = "event:create"
           /\ conn[last'.conn].isAdmin
           /\ toUpperCase(last'.arg) \notin CrisisSeverity)
          => RejectedAsInvalid]_vars

\* C6 witness: an admin has just been refused the severity "urgent".
C6_Witness ==
    /\ last.op = "event:create"
    /\ last.arg = "urgent"
    /\ conn[last.conn].isAdmin
    /\ emitted = <<EmitTo(last.conn, "system:error", BadSeverity)>>

\* The chat contents the model draws that consist of whitespace only.
Whitespace == {"   "}

\* A chat:message is dropped without a trace.
SilentlyDropped ==
    /\ emitted' = <<>>
    /\ UNCHANGED Kept
    /\ UNCHANGED tasks
    /\ thrown' = {}

\* C7 (as claimed): a chat command whose content consists of whitespace only
\* (is empty after trimming) stores nothing, broadcasts nothing and sends no
\* error signal.
C7_BlankChatSilent ==
    [][(last'.op = "chat:message" /\ last'.arg \in Whitespace)
          => SilentlyDropped]_vars

\* C7 (amended): a chat command, from a connection whose socket.data holds a
\* room, whose content consists of whitespace only (is empty after trimming)
\* stores nothing, broadcasts nothing, starts no handler and sends no error
\* signal.
C7_BlankChatOfJoinedSilent ==
    [][(/\ last'.op = "chat:message"
        /\ last'.arg \in Whitespace
        /\ conn[last'.conn].roomId # Null
        /\ conn[last'.conn].roomCode # None)
          => SilentlyDropped]_vars

\* C7 witness: a joined connection has just sent a chat of spaces.
C7_Witness ==
    /\ last.op = "chat:message"
    /\ last.arg = "   "
    /\ conn[last.conn].roomCode # None
    /\ last.conn \in sioRooms[conn[last.conn].roomCode]
    /\ emitted = <<>>

\* The Room Registry sets, and the socket.io rooms, that hold a connection.
RegistryRoomsOf(c) ==
    {r \in Codes : roomConnections[r].present /\ c \in roomConnections[r].ids}

\* C8 (as claimed): a joined connection's further join changes nothing, so
\* every connection id is in at most one room's Room Registry set and in at
\* most one socket.io room.
C8_OneRoomPerConnection ==
    \A c \in Conns :
        /\ Cardinality(RegistryRoomsOf(c)) <= 1
        /\ Cardinality({r \in Codes : c \in sioRooms[r]}) <= 1

\* The connection has explicitly left the room its socket.data names, and the
\* leave has completed.
HasLeft(c) ==
    /\ conn[c].st = "open"
    /\ conn[c].roomCode # None
    /\ c \notin sioRooms[conn[c].roomCode]
    /\ c \notin roomConnections[conn[c].roomCode].ids
    /\ \A t \in tasks : t.conn = c => t.kind \in {"chat", "event"}

\* C9 (as claimed): once a connection's room:leave has completed, a chat or
\* event-create handler of that connection stores no Message and no
\* CrisisEvent and broadcasts nothing.
C9_LeaveIsTerminal ==
    [][\A t \in tasks :
          (Stepped(t) /\ t.kind \in {"chat", "event"} /\ HasLeft(t.conn))
          => /\ messages' = messages
             /\ events' = events
             /\ Broadcasts(emitted') = {}]_vars

\* C10: in every reachable state a room has at most one pending timer, and
\* has one exactly when activeSchedulers holds its code; a join with the
\* admin flag on a room whose timer exists leaves both maps unchanged.
C10_StartIdempotent ==
    /\ [](\A code \in Codes :
            /\ pendingTimers[code] <= 1
            /\ pendingTimers[code] = 1 <=> code \in activeSchedulers)
    /\ [][\A t \in tasks :
            (/\ Stepped(t)
             /\ t.kind = "join"
             /\ t.pc \in {"updateParticipant", "createParticipant"}
             /\ t.admin
             /\ t.code \in activeSchedulers)
            => UNCHANGED <<activeSchedulers, pendingTimers>>]_vars

\* C10 witness: two connections that joined the same room with the admin
\* flag are attached to it, and the room has its one timer.
C10_Witness ==
    \E code \in Codes :
        /\ pendingTimers[code] = 1
        /\ \A c \in Conns :
             /\ conn[c].isAdmin
             /\ conn[c].roomCode = code
             /\ c \in roomConnections[code].ids

\* The step of the handler t calls stopRoomScheduler(t.code): closeRoomAction
\* after its updateMany, or a leave that empties the registry set of the code.
StopCalled(t) ==
    \/ t.kind = "close" /\ t.pc = "updateParticipants"
    \/ /\ t.kind = "leave" /\ t.pc = "update"
       /\ roomConnections[t.code].present
       /\ roomConnections[t.code].ids \ {t.conn} = {}

\* C11: a step that calls stopRoomScheduler(code) raises nothing and leaves
\* no handle and no pending timer for the code; when the map held no handle
\* (the room had no timer, or stop was already called) the two maps are left
\* as they were; and a code without a handle has no pending timer, so no
\* tick fires for it until startRoomScheduler stores one again.
C11_StopIdempotent ==
    /\ [](\A code \in Codes :
            code \notin activeSchedulers => pendingTimers[code] = 0)
    /\ [][\A t \in tasks :
            (Stepped(t) /\ StopCalled(t))
            => /\ thrown' = {}
               /\ t.code \notin activeSchedulers'
               /\ pendingTimers'[t.code] = 0
               /\ t.code \notin activeSchedulers
                    => UNCHANGED <<activeSchedulers, pendingTimers>>]_vars

\* C11 witness: an admin's room was closed (stop, with a timer) and the
\* disconnect that followed emptied its registry set (stop again, without).
C11_Witness ==
    \E c \in Conns, i \in 1..Len(rooms) :
        /\ ~rooms[i].isActive
        /\ conn[c].roomId = i
        /\ conn[c].isAdmin
        /\ conn[c].st = "closed"
        /\ ~roomConnections[rooms[i].code].present
        /\ pendingTimers[rooms[i].code] = 0
        /\ tasks = {}

\* C12: the Room Registry holds no empty set, and a code without a registry
\* entry has no pending timer and no handle in activeSchedulers.
C12_NoTimerWithoutEntry ==
    \A code \in Codes :
        /\ roomConnections[code].present => roomConnections[code].ids # {}
        /\ ~roomConnections[code].present
             => pendingTimers[code] = 0 /\ code \notin activeSchedulers

\* C12 witness: the admin who started the timer of an open room has left it
\* by room:leave, and the room's entry is gone.
C12_Witness ==
    \E c \in Conns, i \in 1..Len(rooms) :
        /\ rooms[i].isActive
        /\ conn[c].roomId = i
        /\ conn[c].isAdmin
        /\ conn[c].st = "open"
        /\ c \notin sioRooms[rooms[i].code]
        /\ ~roomConnections[rooms[i].code].present
        /\ tasks = {}

\* The connections in the registry set of the code whose last join carried
\* the admin flag.
AdminPresence(code) ==
    {c \in roomConnections[code].ids : conn[c].isAdmin}

\* C13 (as claimed): a room has a pending timer only while a connection that
\* joined it with the admin flag is still attached to it; so the leave that
\* takes the last such connection out of the room's registry set leaves the
\* room without a pending timer.
C13_TimerOnlyWithAdmin ==
    [][\A t \in tasks :
          (/\ Stepped(t)
           /\ t.kind = "leave" /\ t.pc = "update"
           /\ conn[t.conn].roomCode = t.code
           /\ AdminPresence(t.code) = {t.conn})
          => pendingTimers'[t.code] = 0]_vars

\* The rooms whose closure the step of t belongs to: the room closeRoomAction
\* was called for, or the closed rooms the socket it disconnected was in.
ClosedBy(t) ==
    IF t.kind = "close" THEN {t.rid}
    ELSE {i \in 1..Len(rooms) :
            /\ ~rooms[i].isActive
            /\ \/ conn[t.conn].roomId = i
               \/ t.conn \in roomConnections[rooms[i].code].ids}

\* What closure is to leave of the room i.
ClosureEffects(i) ==
    /\ ~rooms[i].isActive
    /\ \A p \in 1..Len(participants) :
          participants[p].roomId = i
          => ~participants[p].isConnected /\ participants[p].leftAt # Null
    /\ pendingTimers[rooms[i].code] = 0
    /\ ~roomConnections[rooms[i].code].present

\* C14 (as claimed): when closeRoomAction or the last of the disconnect
\* handlers it triggered completes, with no closure, triggered disconnect
\* handler or join left in flight, the closed room is inactive, each of its
\* participants is disconnected with leftAt set, it has no pending timer, and
\* the Room Registry holds no connection for it.
C14_ClosureEffects ==
    [][\A t \in tasks :
          (/\ Stepped(t)
           /\ \/ t.kind = "close" /\ t.pc = "updateParticipants"
              \/ t.kind = "leave" /\ t.pc = "broadcast"
                 /\ t.arg = ServerDisconnect
           /\ \A u \in tasks' :
                 /\ u.kind \notin {"close", "join"}
                 /\ ~(u.kind = "leave" /\ u.arg = ServerDisconnect))
          => \A i \in ClosedBy(t) : ClosureEffects(i)']_vars

\* C15: no step of closeRoomAction lets a failure escape; and when the
\* gateway does not exist at the step that follows the room's deactivation,
\* the action still ends there with the room inactive, every participant of
\* the room that was connected marked disconnected with leftAt set, and the
\* room's scheduler stopped.
C15_CloseWithoutGateway ==
    [][\A t \in tasks :
          (Stepped(t) /\ t.kind = "close")
          => /\ thrown' = {}
             /\ (t.pc = "updateParticipants" /\ ~io)
                  => /\ tasks' = tasks \ {t}
                     /\ ~rooms'[t.rid].isActive
                     /\ \A p \in 1..Len(participants) :
                           (participants[p].roomId = t.rid
                            /\ participants[p].isConnected)
                           => /\ ~participants'[p].isConnected
                              /\ participants'[p].leftAt # Null
                     /\ t.code \notin activeSchedulers'
                     /\ pendingTimers'[t.code] = 0]_vars

\* C15 witness: the room a restarted server found is closed before any
\* gateway exists, and its participant, found connected, is disconnected.
C15_Witness ==
    /\ ~io
    /\ ~rooms[1].isActive
    /\ ~participants[1].isConnected
    /\ participants[1].leftAt # Null
    /\ tasks = {}

\* A CrisisEvent but for its acknowledgment.
Unacked(e) == [e EXCEPT !.ackAt = Null]

\* C16 (as claimed): once the ackAt of a CrisisEvent is set it never changes
\* again, and no other field of a stored CrisisEvent ever changes.
C16_AckSetOnce ==
    [][\A i \in 1..Len(events) :
          /\ Unacked(events'[i]) = Unacked(events[i])
          /\ events[i].ackAt # Null => events'[i].ackAt = events[i].ackAt]_vars

\* C16 (amended): ackAt is the only field of a stored CrisisEvent that ever
\* changes; once set it stays set, and an acknowledgment of an acknowledged
\* event replaces it with the instant of that acknowledgment, never an
\* earlier one.
C16_AckOnlyMutated ==
    [][\A i \in 1..Len(events) :
          /\ Unacked(events'[i]) = Unacked(events[i])
          /\ events[i].ackAt # Null
               => /\ events'[i].ackAt # Null
                  /\ events'[i].ackAt >= events[i].ackAt
          /\ events'[i].ackAt # events[i].ackAt
               => /\ events'[i].ackAt = now
                  /\ \E t \in tasks :
                        Stepped(t) /\ t.kind = "ack" /\ t.pid = i]_vars

\* C16 witness: the event was acknowledged at an earlier instant, and the
\* updateMany of another acknowledgment of it is about to run.
C16_Witness ==
    /\ Len(events) = 1
    /\ events[1].ackAt # Null
    /\ events[1].ackAt < now
    /\ \E t \in tasks : t.kind = "ack" /\ t.pid = 1

\* C17: an event:ack, whatever its id, sends nothing, raises nothing and
\* changes nothing when it arrives; when its updateMany has run, nothing was
\* sent or raised, and nothing stored or kept by the gateway has changed but
\* the ackAt of the CrisisEvent of that id, if there is one.
C17_AckSilent ==
    [][/\ last'.op = "event:ack"
            => emitted' = <<>> /\ thrown' = {} /\ UNCHANGED Kept
       /\ \A t \in tasks :
            (Stepped(t) /\ t.kind = "ack")
            => /\ emitted' = <<>>
               /\ thrown' = {}
               /\ tasks' = tasks \ {t}
               /\ UNCHANGED <<conn, sioRooms, roomConnections, activeSchedulers,
                              pendingTimers, rooms, participants, messages>>
               /\ Len(events') = Len(events)
               /\ \A i \in 1..Len(events) :
                     /\ Unacked(events'[i]) = Unacked(events[i])
                     /\ i # t.pid => events'[i] = events[i]]_vars

\* C17 witness: the event was acknowledged at an earlier instant, and a
\* second event:ack for it has been accepted.
C17_Witness ==
    /\ Len(events) = 1
    /\ events[1].ackAt # Null
    /\ events[1].ackAt < now
    /\ last.op = "event:ack"
    /\ last.id = 1

\* C18: a Participant row whose role is formateur keeps that role in every
\* later state, whatever joins, leaves, disconnects and closures follow.
C18_RoleNeverDowngraded ==
    [][\A i \in 1..Len(participants) :
          participants[i].role = "formateur"
             => participants'[i].role = "formateur"]_vars

\* The connections attached to the room of a code: the open connections in
\* its Room Registry set that are not in the middle of leaving it.
Attached(code) ==
    {c \in roomConnections[code].ids :
        /\ conn[c].st = "open"
        /\ \A u \in tasks : ~(u.kind = "leave" /\ u.conn = c /\ u.code = code)}

\* The emit e is a broadcast of ev to the room of the code that reaches
\* every connection attached to it.
DeliveredToRoom(e, ev, code) ==
    /\ e.ev = ev
    /\ e.room = code
    /\ Attached(code) \subseteq e.to
    /\ e.to = {c \in sioRooms[code] : conn[c].st = "open"}

\* C19: an event:create of a joined admin whose severity is one of the enum
\* (once upper-cased) passes every check and starts the handler for the
\* room of its socket.data; the handler then stores exactly one CrisisEvent
\* of that room with source MANUAL and that severity, then exactly one
\* Message of type EVENT of that room, and then sends one event:created and
\* one system:announcement to every connection attached to the room.
C19_ManualEventPersistsAndBroadcasts ==
    /\ [][(/\ last'.op = "event:create"
           /\ conn[last'.conn].isAdmin
           /\ conn[last'.conn].roomId # Null
           /\ conn[last'.conn].roomCode # None
           /\ toUpperCase(last'.arg) \in CrisisSeverity)
          => /\ \E t \in tasks' :
                   /\ tasks' = tasks \cup {t}
                   /\ t.kind = "event" /\ t.pc = "createEvent"
                   /\ t.conn = last'.conn
                   /\ t.rid = conn[last'.conn].roomId
                   /\ t.code = conn[last'.conn].roomCode
                   /\ t.arg = toUpperCase(last'.arg)
             /\ emitted' = <<>>
             /\ thrown' = {}
             /\ UNCHANGED Kept]_vars
    /\ [][\A t \in tasks :
            (Stepped(t) /\ t.kind = "event" /\ t.pc = "createEvent")
               => /\ events' = Append(events,
                                      [roomId |-> t.rid, severity |-> t.arg,
                                       source |-> "MANUAL",
                                       triggeredAt |-> now, ackAt |-> Null])
                  /\ t.arg \in CrisisSeverity
                  /\ rooms[t.rid].code = t.code
                  /\ messages' = messages
                  /\ emitted' = <<>>
                  /\ thrown' = {}
                  /\ \E u \in tasks' :
                        /\ tasks' = (tasks \ {t}) \cup {u}
                        /\ u.kind = "event" /\ u.pc = "createMessage"
                        /\ u.rid = t.rid /\ u.code = t.code
                        /\ u.arg = t.arg /\ u.pid = Len(events')]_vars
    /\ [][\A t \in tasks :
            (Stepped(t) /\ t.kind = "event" /\ t.pc = "createMessage")
               => /\ Len(messages') = Len(messages) + 1
                  /\ SubSeq(messages', 1, Len(messages)) = messages
                  /\ messages'[Len(messages')].type = "EVENT"
                  /\ messages'[Len(messages')].roomId = t.rid
                  /\ messages'[Len(messages')].metadata =
                        [severity |-> t.arg, source |-> "MANUAL"]
                  /\ events' = events
                  /\ Len(emitted') = 2
                  /\ DeliveredToRoom(emitted'[1], "event:created", t.code)
                  /\ emitted'[1].payload = <<t.pid>>
                  /\ DeliveredToRoom(emitted'[2], "system:announcement",
                                     t.code)
                  /\ thrown' = {}
                  /\ tasks' = tasks \ {t}]_vars

\* C19 witness: the handler of an admin's event:create has just finished;
\* the event and its message are stored and both broadcasts reached the
\* admin and a second connection attached to the room.
C19_Witness ==
    /\ last.op = "resume"
    /\ Len(events) = 1 /\ events[1].source = "MANUAL"
    /\ Len(messages) = 1 /\ messages[1].type = "EVENT"
    /\ Len(emitted) = 2
    /\ emitted[1].ev = "event:created"
    /\ emitted[2].ev = "system:announcement"
    /\ emitted[1].to = Conns /\ emitted[2].to = Conns
    /\ Attached(emitted[1].room) = Conns

\* The handler t of a scheduler emission took its step at the place pc.
SchedStep(t, pc) == Stepped(t) /\ t.kind = "sched" /\ t.pc = pc

ClientCommand == budget' < budget /\ last'.conn \in Conns

\* C21: the handler of a connection's command does not start before the
\* handlers of the connection's earlier commands have completed.
C21_OneHandlerPerConnection ==
    [][ClientCommand => \A t \in tasks : t.conn # last'.conn]_vars

\* The connection has disconnected and every handler invoked for it has run
\* to completion.
DisconnectedAndQuiet(c) ==
    /\ conn[c].st = "closed"
    /\ \A t \in tasks : t.conn # c

\* C22: once a connection has disconnected and its handlers have completed,
\* its id is in no Room Registry set, and a room all of whose connections
\* have disconnected that way has no pending scheduler timer.
C22_DisconnectCleansUp ==
    /\ \A c \in Conns, code \in Codes :
          DisconnectedAndQuiet(c) => c \notin roomConnections[code].ids
    /\ \A code \in Codes :
          (\A c \in roomConnections[code].ids : DisconnectedAndQuiet(c))
             => pendingTimers[code] = 0

\* C23: there is at most one Room per upper-cased code, and the only join of
\* a connection, by an admin who found no Room, goes on to join the single
\* Room of its code, with no failure escaping the handler, also when another
\* admin connection's join of the same code created the Room in between.
C23_ConcurrentAdminJoins ==
    /\ [](\A code \in Codes : Cardinality(RoomIdsByCode(code)) <= 1)
    /\ [][\A t \in tasks :
            (/\ Stepped(t) /\ t.kind = "join" /\ t.pc = "createRoom"
             /\ conn[t.conn].roomCode = None
             /\ \A v \in tasks \ {t} : v.conn # t.conn)
               => /\ thrown' = {}
                  /\ \E u \in tasks' :
                        /\ u.kind = "join" /\ u.conn = t.conn
                        /\ u.pc = "findParticipant"
                        /\ RoomIdsByCode(t.code)' = {u.rid}]_vars

\* The row of the id exists in the table and belongs to the Room whose code
\* names the socket.io room of the broadcast.
StoredInRoom(table, id, code) ==
    /\ id \in 1..Len(table)
    /\ RoomExists(table[id].roomId)
    /\ rooms[table[id].roomId].code = code

\* C24: every chat:message and every event:created just sent carries the id
\* of a Message of type CHAT, respectively of a CrisisEvent, that is stored
\* in the room of the broadcast.
C24_PersistBeforeBroadcast ==
    \A k \in 1..Len(emitted) :
        /\ emitted[k].ev = "chat:message"
              => /\ StoredInRoom(messages, emitted[k].payload[1], emitted[k].room)
                 /\ messages[emitted[k].payload[1]].type = "CHAT"
        /\ emitted[k].ev = "event:created"
              => StoredInRoom(events, emitted[k].payload[1], emitted[k].room)

\* C24 witness: a chat message has just been broadcast to two connections of
\* the room.
C24_Witness ==
    /\ Len(emitted) = 1
    /\ emitted[1].ev = "chat:message"
    /\ emitted[1].to = Conns
    /\ Len(messages) = 1

\* C25: under weak fairness of timer firing, a room whose timer is armed
\* from some point on for ever (its scheduler was started and is never
\* stopped) has its timer fire again and again; and every firing emits
\* exactly one event, of its room, and leaves exactly one timer armed for
\* that room and the timers of the other rooms as they were.
C25_SchedulerLiveness ==
    /\ \A code \in Codes :
          <>[](pendingTimers[code] > 0)
             => []<><<\E severity \in SchedulerSeverities :
                         TimerFires(code, severity)>>_vars
    /\ [][last'.op = "tick"
            => /\ Len(emitted') = 1
               /\ emitted'[1].ev = "scheduler:event"
               /\ emitted'[1].payload[1] = last'.arg
               /\ emitted'[1].payload[2] \in {"LOW", "MODERATE", "HIGH"}
               /\ pendingTimers[last'.arg] = 1
               /\ pendingTimers' = pendingTimers
               /\ last'.arg \in activeSchedulers']_vars

\* C25 witness: the timer of a room has fired while the timer of the other
\* room is armed too, and the next timer of the room is armed.
C25_Witness ==
    /\ last.op = "tick"
    /\ Len(emitted) = 1
    /\ emitted[1].ev = "scheduler:event"
    /\ \A code \in Codes : pendingTimers[code] = 1
    /\ tasks = {}

\* The connection is attached to the room of the code and associated with
\* the Participant of the id.
AttachedAs(c, code, pid) ==
    /\ conn[c].st = "open"
    /\ conn[c].roomCode = code
    /\ conn[c].participantId = pid
    /\ c \in roomConnections[code].ids
    /\ c \in sioRooms[code]

\* C26: when the leave of a connection from the room it joined has completed
\* and no handler is in flight, the Participant it was associated with is
\* still marked connected if another connection attached to the room is
\* associated with the same Participant.
C26_PresenceConsistent ==
    [][\A t \in tasks :
          (/\ Stepped(t) /\ t.kind = "leave" /\ t.pc = "broadcast"
           /\ tasks' = {}
           /\ t.code = conn[t.conn].roomCode
           /\ t.pid = conn[t.conn].participantId
           /\ \E c \in Conns \ {t.conn} : AttachedAs(c, t.code, t.pid)')
             => participants'[t.pid].isConnected]_vars

\* C27: a participant list is delivered only to connections of the room
\* whose participants it lists: every recipient of a participant:update has
\* joined the room of every Participant on the list.
C27_RoomIsolation ==
    \A k \in 1..Len(emitted) :
        emitted[k].ev = "participant:update"
           => \A c \in emitted[k].to :
                 \A j \in 1..Len(emitted[k].payload) :
                     rooms[participants[emitted[k].payload[j]].roomId].code
                        = conn[c].roomCode

\* C28: the leave cleanup runs once per join: the disconnect of a connection
\* whose explicit room:leave has completed starts no second run of the leave
\* handler (which would write leftAt and announce the leave again).
C28_LeaveCleanupOnce ==
    [][(/\ last'.op = "disconnect"
        /\ budget' < budget
        /\ HasLeft(last'.conn)
        /\ \A t \in tasks : t.conn # last'.conn)
          => \A t \in tasks' : ~(t.kind = "leave" /\ t.conn = last'.conn)]_vars

\* C29: once the closure of a room has completed and its timer is stopped,
\* the consumption of a scheduler emission for its code, suspended at a
\* persistence call since before, stores no CrisisEvent and no Message and
\* broadcasts nothing.
C29_NoSchedulerEventAfterClose ==
    [][\A t \in tasks :
          (/\ Stepped(t) /\ t.kind = "sched"
           /\ ClosureCompleted(t.code)
           /\ pendingTimers[t.code] = 0)
             => /\ events' = events
                /\ messages' = messages
                /\ Broadcasts(emitted') = {}]_vars

\* The event:created broadcasts among the emits.
EventCreatedEmits(ems) == {k \in 1..Len(ems) : ems[k].ev = "event:created"}

\* C30: however often createSocketServer is called, there is one gateway
\* and one scheduler subscription: a call on an existing gateway changes
\* nothing, a timer firing starts at most one consumption of its emission,
\* and no step stores more than one CrisisEvent or sends more than one
\* event:created.
C30_InitIdempotent ==
    /\ [](listeners = IF io THEN 1 ELSE 0)
    /\ [][(last'.op = "createSocketServer" /\ io)
            => /\ UNCHANGED <<io, listeners, tasks>>
               /\ UNCHANGED Kept]_vars
    /\ [][last'.op = "tick"
            => /\ Cardinality(tasks' \ tasks) <= 1
               /\ events' = events]_vars
    /\ [][/\ Len(events') <= Len(events) + 1
          /\ Cardinality(EventCreatedEmits(emitted')) <= 1]_vars

\* C30 witness: createSocketServer has just been called again on a gateway
\* that has a room with an armed timer and a stored scheduler event.
C30_Witness ==
    /\ last.op = "createSocketServer"
    /\ listeners = 1
    /\ \E code \in Codes : pendingTimers[code] > 0
    /\ Len(events) = 1
    /\ events[1].source = "SCHEDULER"

====
